---- MODULE Spec2Model ----
(***************************************************************************)
(* A model of run.py, the GitHub webhook receiver that relays push events  *)
(* to Misskey and appends them to github_push_info.txt.                    *)
(*                                                                         *)
(* Python values are tagged records (ty names the Python type).  A text is *)
(* a sequence of lines; a line is a tuple whose first element names the    *)
(* fixed part of the line and whose second, when present, is the           *)
(* interpolated string.  The Chinese literals of the source are written in *)
(* ASCII: "[modified]", "[added]" and "[removed]" stand for the three file *)
(* tags of lines 83, 85 and 87.                                            *)
(***************************************************************************)
EXTENDS Naturals, Sequences, FiniteSets, TLC

VARIABLES pc, req, text, pending, resp, calls, failure, notes, file

vars == <<pc, req, text, pending, resp, calls, failure, notes, file>>

(***************************************************************************)
(* Bounds of the model, and the one numeric constant of the program.       *)
(***************************************************************************)
NumThreads == 2

MaxLen == 2

MaxCommits == 100

Threads == 1 .. NumThreads

(***************************************************************************)
(* Python values.                                                          *)
(***************************************************************************)
PyNone == [ty |-> "NoneType"]

PyStr(s) == [ty |-> "str", str |-> s]

PyInt(n) == [ty |-> "int", int |-> n]

PyList(xs) == [ty |-> "list", items |-> xs]

PyDict(f) == [ty |-> "dict", fields |-> f]

EmptyFields == [k \in {} |-> PyNone]

HasKey(d, k) == k \in DOMAIN d.fields

\* str(v) as an f-string interpolates it
Str(v) ==
    CASE v.ty = "str" -> v.str
      [] v.ty = "NoneType" -> "None"
      [] OTHER -> "<repr>"

\* an exception: its class and the words of str(e)
Exc(cls, msg) == [cls |-> cls, msg |-> msg]

\* the classes an exception of class cls is an instance of
Mro(cls) ==
    CASE cls = "KeyError" -> {"KeyError", "LookupError", "Exception"}
      [] cls = "ValueError" -> {"ValueError", "Exception"}
      [] cls = "UnicodeEncodeError" ->
            {"UnicodeEncodeError", "UnicodeError", "ValueError", "Exception"}
      [] cls = "ConnectionError" -> {"ConnectionError", "OSError", "Exception"}
      [] cls = "ConnectionResetError" ->
            {"ConnectionResetError", "ConnectionError", "OSError", "Exception"}
      [] cls = "PermissionError" -> {"PermissionError", "OSError", "Exception"}
      [] cls = "OSError" -> {"OSError", "Exception"}
      [] OTHER -> {cls, "Exception"}

IsInstance(e, cls) == cls \in Mro(e.cls)

Raised(e) == [raised |-> TRUE, exc |-> e]

Returned(v) == [raised |-> FALSE, value |-> v]

(***************************************************************************)
(* The push schema and jsonschema's validate, for the keywords the schema  *)
(* uses: type, properties, required.                                       *)
(***************************************************************************)
push_event_schema ==
    [type |-> "object",
     properties |->
        ("repository" :>
            [type |-> "object",
             properties |-> ("name" :> [type |-> "string"]),
             required |-> <<"name">>]
         @@ "ref" :> [type |-> "string"]
         @@ "commits" :> [type |-> "array"]),
     required |-> <<"repository", "ref", "commits">>]

\* whether a Python value is of a JSON Schema type
IsType(v, type) ==
    CASE type = "object" -> v.ty = "dict"
      [] type = "string" -> v.ty = "str"
      [] type = "array" -> v.ty = "list"
      [] OTHER -> FALSE

RECURSIVE SchemaErrors(_, _)
\* the violations jsonschema finds, each as the words of its message
SchemaErrors(v, schema) ==
    LET typeErr ==
            IF "type" \in DOMAIN schema /\ ~IsType(v, schema.type)
            THEN {<<"is not of type", schema.type>>} ELSE {}
        reqErr ==
            IF "required" \in DOMAIN schema /\ v.ty = "dict"
            THEN {<<schema.required[i], "is a required property">> :
                    i \in {j \in DOMAIN schema.required :
                              ~HasKey(v, schema.required[j])}}
            ELSE {}
        propErr ==
            IF "properties" \in DOMAIN schema /\ v.ty = "dict"
            THEN UNION {SchemaErrors(v.fields[k], schema.properties[k]) :
                          k \in DOMAIN schema.properties \cap DOMAIN v.fields}
            ELSE {}
    IN typeErr \cup reqErr \cup propErr

\* validate(data, schema): returns, or raises ValidationError for one violation
validate(v, schema) ==
    LET errs == SchemaErrors(v, schema)
    IN IF errs = {} THEN Returned(PyNone)
       ELSE Raised(Exc("ValidationError", CHOOSE e \in errs : TRUE))

(***************************************************************************)
(* build_commit_info_text.                                                 *)
(***************************************************************************)
\* commit.get(key, []) followed by the for loop over it: the lines, or TypeError
FileLines(commit, key, tag) ==
    IF ~HasKey(commit, key) THEN Returned(<<>>)
    ELSE LET v == commit.fields[key]
         IN IF v.ty = "list"
            THEN Returned([i \in DOMAIN v.items |-> <<tag, Str(v.items[i])>>])
            ELSE Raised(Exc("TypeError", <<v.ty, "object is not iterable">>))

\* one pass of the loop body, lines 74 to 88
CommitBlock(commit) ==
    IF commit.ty # "dict"
    THEN Raised(Exc("TypeError", <<commit.ty, "object is not subscriptable">>))
    ELSE IF ~HasKey(commit, "message") THEN Raised(Exc("KeyError", <<"'message'">>))
    ELSE IF ~HasKey(commit, "author") THEN Raised(Exc("KeyError", <<"'author'">>))
    ELSE IF commit.fields["author"].ty # "dict"
    THEN Raised(Exc("TypeError",
                    <<commit.fields["author"].ty, "object is not subscriptable">>))
    ELSE IF ~HasKey(commit.fields["author"], "name")
    THEN Raised(Exc("KeyError", <<"'name'">>))
    ELSE LET m == FileLines(commit, "modified", "[modified]")
             a == FileLines(commit, "added", "[added]")
             r == FileLines(commit, "removed", "[removed]")
         IN IF m.raised THEN m
            ELSE IF a.raised THEN a
            ELSE IF r.raised THEN r
            ELSE Returned(<< <<"NOTICE">>, <<"">>,
                             <<"MESSAGE", Str(commit.fields["message"])>>,
                             <<"AUTHOR", Str(commit.fields["author"].fields["name"])>>,
                             <<"FILES">>, <<"FENCE">> >>
                          \o m.value \o a.value \o r.value \o << <<"FENCE">> >>)

\* the cap of line 70 off by one
TooManyCommits_off_by_one(commits) == Len(commits) >= MaxCommits

\* len(commits) > 100
TooManyCommits(commits) == Len(commits) > MaxCommits

RECURSIVE CommitLoop_prepend(_, _, _)
\* the loop with each block put before the text so far
CommitLoop_prepend(commits, lo, hi) ==
    IF lo > hi THEN Returned(<<>>)
    ELSE IF lo = hi THEN CommitBlock(commits[lo])
    ELSE LET mid == (lo + hi) \div 2
             left == CommitLoop_prepend(commits, lo, mid)
             right == CommitLoop_prepend(commits, mid + 1, hi)
         IN IF left.raised THEN left
            ELSE IF right.raised THEN right
            ELSE Returned(right.value \o left.value)

RECURSIVE CommitLoop(_, _, _)
\* the for loop of line 73 over commits[lo .. hi]: the text its passes add to
\* all_info_text, or the exception of the first pass that raises.  The passes
\* run left to right and += is associative, so the range is evaluated in halves.
CommitLoop(commits, lo, hi) ==
    IF lo > hi THEN Returned(<<>>)
    ELSE IF lo = hi THEN CommitBlock(commits[lo])
    ELSE LET mid == (lo + hi) \div 2
             left == CommitLoop(commits, lo, mid)
             right == CommitLoop(commits, mid + 1, hi)
         IN IF left.raised THEN left
            ELSE IF right.raised THEN right
            ELSE Returned(left.value \o right.value)

build_commit_info_text(commits) ==
    IF TooManyCommits(commits)
    THEN Raised(Exc("ValueError", <<"too many commits">>))
    ELSE CommitLoop(commits, 1, Len(commits))

(***************************************************************************)
(* Responses.                                                              *)
(***************************************************************************)
\* error_code=None and error_code="" are both falsy at line 21
generate_error_response(status_code, message, detail, error_code) ==
    [code |-> status_code,
     body |-> IF error_code # ""
              THEN [status |-> "error", message |-> message, detail |-> detail,
                    error_code |-> error_code]
              ELSE [status |-> "error", message |-> message, detail |-> detail]]

\* jsonify({'status': 'success'}), 200
success_response == [code |-> 200, body |-> [status |-> "success"]]

\* no response has been returned yet
NoResponse == [code |-> 0, body |-> [status |-> "pending"]]

ErrorCode(r) == IF "error_code" \in DOMAIN r.body THEN r.body.error_code ELSE ""

\* the except clauses around handle_github_push_event, in their order
push_error_response(e) ==
    IF IsInstance(e, "KeyError")
    THEN generate_error_response(500, "push event key missing", e.msg, "KEY_MISSING")
    ELSE IF IsInstance(e, "ValueError")
    THEN generate_error_response(400, "commit count abnormal", e.msg, "VALUE_ERROR")
    ELSE IF IsInstance(e, "ConnectionError")
    THEN generate_error_response(500, "Misskey connection failed", e.msg,
                                 "CONNECTION_ERROR")
    ELSE IF IsInstance(e, "PermissionError")
    THEN generate_error_response(500, "Misskey permission check failed", e.msg,
                                 "PERMISSION_ERROR")
    ELSE generate_error_response(500, "push event handling failed", e.msg,
                                 "GENERAL_ERROR")

(***************************************************************************)
(* The Misskey client's failure, as push_info_to_misskey re-raises it.     *)
(***************************************************************************)
\* str.lower() on one word
Lower(w) ==
    CASE w = "Network" -> "network"
      [] w = "NETWORK" -> "network"
      [] w = "Permission" -> "permission"
      [] OTHER -> w

\* word in str(e).lower()
InLower(word, e) == \E i \in DOMAIN e.msg : Lower(e.msg[i]) = word

\* the except clause of push_info_to_misskey: the exception that leaves it
misskey_reraise(e) ==
    IF InLower("network", e)
    THEN Exc("ConnectionError", <<"Misskey", "connection", "failed">>)
    ELSE IF InLower("permission", e)
    THEN Exc("PermissionError", <<"Misskey", "permission", "check", "failed">>)
    ELSE e

\* what api.notes_create can raise (the client library and the network decide)
NotesCreateErrors ==
    {Exc("RequestsConnectionError", <<"Network", "is", "unreachable">>),
     Exc("MisskeyAPIException", <<"Permission", "denied">>),
     Exc("MisskeyAPIException", <<"NETWORK", "permission", "lost">>),
     Exc("MisskeyAPIException", <<"rate", "limit", "exceeded">>),
     Exc("ConnectionResetError", <<"Connection", "reset", "by", "peer">>)}

\* what open(..., 'a') can raise (the file system decides)
OpenErrors ==
    {Exc("PermissionError", <<"[Errno 13]", "Permission", "denied">>),
     Exc("OSError", <<"[Errno 28]", "No", "space", "left", "on", "device">>)}

\* what file.write can raise while encoding a text (the locale decides); every
\* non-empty text holds the non-ASCII notice line
WriteErrors(txt) ==
    IF txt = <<>> THEN {}
    ELSE {Exc("UnicodeEncodeError", <<"'ascii'", "codec", "can't", "encode">>)}

\* a write(2) call for each line
RawWrites_per_line(txt) == [i \in DOMAIN txt |-> <<txt[i]>>]

\* the write(2) calls, each an atomic O_APPEND append, that flushing the buffered
\* text makes: the whole text in one call, none for an empty text
RawWrites(txt) == IF txt = <<>> THEN <<>> ELSE <<txt>>

(***************************************************************************)
(* Requests.                                                               *)
(***************************************************************************)
\* request.get_json(silent=True): None when the body does not parse
get_json(body) == IF body.parsable THEN body.json ELSE PyNone

\* request.headers.get('X-GitHub-Event') is r.event: a str, or None when absent

(***************************************************************************)
(* The inputs the model draws requests from.                               *)
(***************************************************************************)
\* marks a key the document does not hold
Absent == [ty |-> "absent"]

Field(k, v) == IF v = Absent THEN EmptyFields ELSE k :> v

SeqsUpTo(S, n) == UNION {[1 .. k -> S] : k \in 0 .. n}

Author(name) == PyDict(Field("name", name))

Commit(message, author, modified, added, removed) ==
    PyDict(Field("message", message) @@ Field("author", author)
           @@ Field("modified", modified) @@ Field("added", added)
           @@ Field("removed", removed))

FullCommit ==
    Commit(PyStr("A"), Author(PyStr("X")), PyList(<<PyStr("f1")>>),
           PyList(<<PyStr("f2")>>), PyList(<<PyStr("f3")>>))

BareCommit == Commit(PyStr("B"), Author(PyStr("Y")), Absent, Absent, Absent)

\* commits the schema lets through and the formatter fails on
MalformedCommits ==
    {Commit(Absent, Author(PyStr("X")), Absent, Absent, Absent),
     Commit(PyStr("A"), Absent, Absent, Absent, Absent),
     Commit(PyStr("A"), Author(Absent), Absent, Absent, Absent),
     Commit(PyStr("A"), PyStr("bob"), Absent, Absent, Absent),
     Commit(PyStr("A"), Author(PyStr("X")), PyNone, Absent, Absent),
     PyStr("oops")}

HandlerCommits == {FullCommit, BareCommit} \cup MalformedCommits

Pad(n, first) == [i \in 1 .. n |-> IF i = 1 THEN first ELSE BareCommit]

CommitLists ==
    SeqsUpTo(HandlerCommits, MaxLen)
    \cup {Pad(MaxCommits, FullCommit), Pad(MaxCommits + 1, FullCommit),
          Pad(MaxCommits + 2, PyStr("oops"))}

Doc(rp, rf, cs) ==
    PyDict(Field("repository", rp) @@ Field("ref", rf) @@ Field("commits", cs))

\* every shape of repository, ref and commits, and every list of commits in a
\* well-shaped document
Documents ==
    {Doc(rp, rf, cs) :
        rp \in {Absent, PyStr("repo"), Author(Absent), Author(PyInt(1)),
                Author(PyStr("repo"))},
        rf \in {Absent, PyInt(1), PyStr("refs/heads/main")},
        cs \in {Absent, PyStr("none"), PyList(<<>>), PyList(<<FullCommit>>)}}
    \cup {Doc(Author(PyStr("repo")), PyStr("refs/heads/main"), PyList(l)) :
            l \in CommitLists}

Bodies ==
    {[parsable |-> FALSE]}
    \cup {[parsable |-> TRUE, json |-> v] :
            v \in {PyNone, PyList(<<>>), PyStr("push")} \cup Documents}

Events == {PyStr("push"), PyStr("pull_request"), PyStr("ping"), PyStr("Push"), PyNone}

Requests == [event : Events, body : Bodies]

PushRequest(commits) ==
    [event |-> PyStr("push"),
     body |-> [parsable |-> TRUE,
               json |-> Doc(Author(PyStr("repo")), PyStr("refs/heads/main"),
                            PyList(commits))]]

\* the threaded server: thread t's push carries a marker of its own
Markers == <<"m1", "m2", "m3", "m4">>

MarkedCommit(t) ==
    Commit(PyStr(Markers[t]), Author(PyStr("X")), PyList(<<PyStr("f1")>>), Absent, Absent)

ThreadRequests(t) ==
    {PushRequest(<<MarkedCommit(t)>>), PushRequest(<<MarkedCommit(t), BareCommit>>)}

\* the formatter's inputs: well-formed commits
FileLists == {Absent, PyList(<<PyStr("f1")>>), PyList(<<PyStr("f2"), PyStr("f1"), PyStr("f1")>>)}

FmtCommits ==
    {Commit(PyStr(m), Author(PyStr("X")), mo, ad, re) :
        m \in {"A", "B"}, mo \in FileLists, ad \in FileLists,
        re \in {Absent, PyList(<<PyStr("f1"), PyStr("f3")>>)}}

FmtLists == SeqsUpTo(FmtCommits, MaxLen) \cup {Pad(MaxCommits, FullCommit)}

(***************************************************************************)
(* The handler, one action per step of a request's thread.                 *)
(***************************************************************************)
NoRequest == [event |-> PyNone, body |-> [parsable |-> FALSE]]

\* the exception a thread is handling, and the call that raised it
Failure(site, e) == [site |-> site, exc |-> e]

NoFailure == Failure("none", Exc("none", <<>>))

\* the check of line 127 left out
DataIsNone_unchecked(data) == FALSE

\* data is None
DataIsNone(data) == data = PyNone

Init ==
    /\ pc = [t \in Threads |-> "idle"]
    /\ req = [t \in Threads |-> NoRequest]
    /\ text = [t \in Threads |-> <<>>]
    /\ pending = [t \in Threads |-> <<>>]
    /\ resp = [t \in Threads |-> NoResponse]
    /\ calls = [t \in Threads |-> <<>>]
    /\ failure = [t \in Threads |-> NoFailure]
    /\ notes = <<>>
    /\ file = <<>>

\* github_webhook up to its dispatch on the event type: where the thread goes,
\* what it has called and, when it returns here, its response
Entry(r) ==
    LET data == get_json(r.body)
        v == validate(data, push_event_schema)
    IN IF DataIsNone(data)
       THEN [pc |-> "done", calls |-> <<>>,
             failure |-> Failure("get_json", Exc("none", <<>>)),
             resp |-> generate_error_response(400, "request body is not valid JSON",
                          <<"cannot parse the request body as JSON">>, "INVALID_JSON")]
       ELSE IF v.raised
       THEN [pc |-> "done", calls |-> <<"validate">>,
             failure |-> Failure("validate", v.exc),
             resp |-> generate_error_response(400, "request body violates the schema",
                          v.exc.msg, "INVALID_SCHEMA")]
       ELSE IF r.event = PyStr("push")
       THEN [pc |-> "push", calls |-> <<"validate", "handle_github_push_event">>,
             failure |-> NoFailure, resp |-> NoResponse]
       ELSE IF r.event = PyStr("pull_request")
       THEN [pc |-> "done",
             calls |-> <<"validate", "handle_github_pull_request_event">>,
             failure |-> NoFailure, resp |-> success_response]
       ELSE [pc |-> "done", calls |-> <<"validate">>, failure |-> NoFailure,
             resp |-> success_response]

github_webhook(t, r) ==
    /\ pc[t] = "idle"
    /\ req' = [req EXCEPT ![t] = r]
    /\ pc' = [pc EXCEPT ![t] = Entry(r).pc]
    /\ calls' = [calls EXCEPT ![t] = Entry(r).calls]
    /\ resp' = [resp EXCEPT ![t] = Entry(r).resp]
    /\ failure' = [failure EXCEPT ![t] = Entry(r).failure]
    /\ UNCHANGED <<text, pending, notes, file>>

\* the call at site raised e; out leaves handle_github_push_event and reaches
\* github_webhook's except clauses
Raise(t, site, e, out) ==
    /\ pc' = [pc EXCEPT ![t] = "done"]
    /\ failure' = [failure EXCEPT ![t] = Failure(site, e)]
    /\ resp' = [resp EXCEPT ![t] = push_error_response(out)]

\* data.get('commits', []) of a validated document
CommitsOf(r) == r.body.json.fields["commits"].items

\* handle_github_push_event down to build_commit_info_text; lines 176 to 178
\* read repository.name and ref, which the schema has checked, for the log only
handle_github_push_event(t) ==
    /\ pc[t] = "push"
    /\ LET b == build_commit_info_text(CommitsOf(req[t]))
       IN /\ calls' = [calls EXCEPT ![t] = Append(@, "build_commit_info_text")]
          /\ IF b.raised
             THEN Raise(t, "build_commit_info_text", b.exc, b.exc) /\ UNCHANGED text
             ELSE /\ pc' = [pc EXCEPT ![t] = "notify"]
                  /\ text' = [text EXCEPT ![t] = b.value]
                  /\ UNCHANGED <<resp, failure>>
    /\ UNCHANGED <<req, pending, notes, file>>

\* push_info_to_misskey with its except clause logging the error and returning
push_info_to_misskey_swallow(t) ==
    /\ pc[t] = "notify"
    /\ calls' = [calls EXCEPT ![t] = Append(@, "push_info_to_misskey")]
    /\ pc' = [pc EXCEPT ![t] = "open"]
    /\ \E o \in {Returned(PyNone)} \cup {Raised(e) : e \in NotesCreateErrors} :
          notes' = IF o.raised THEN notes ELSE Append(notes, text[t])
    /\ UNCHANGED <<req, text, pending, resp, failure, file>>

\* push_info_to_misskey: the note is created, or the client raises
push_info_to_misskey(t) ==
    /\ pc[t] = "notify"
    /\ calls' = [calls EXCEPT ![t] = Append(@, "push_info_to_misskey")]
    /\ \E o \in {Returned(PyNone)} \cup {Raised(e) : e \in NotesCreateErrors} :
          IF o.raised
          THEN Raise(t, "notes_create", o.exc, misskey_reraise(o.exc))
               /\ UNCHANGED notes
          ELSE /\ pc' = [pc EXCEPT ![t] = "open"]
               /\ notes' = Append(notes, text[t])
               /\ UNCHANGED <<resp, failure>>
    /\ UNCHANGED <<req, text, pending, file>>

\* save_info_to_file: open('github_push_info.txt', 'a')
save_info_to_file(t) ==
    /\ pc[t] = "open"
    /\ calls' = [calls EXCEPT ![t] = Append(@, "save_info_to_file")]
    /\ \E o \in {Returned(PyNone)} \cup {Raised(e) : e \in OpenErrors} :
          IF o.raised
          THEN Raise(t, "open", o.exc, o.exc)
          ELSE pc' = [pc EXCEPT ![t] = "write"] /\ UNCHANGED <<resp, failure>>
    /\ UNCHANGED <<req, text, pending, notes, file>>

\* file.write(all_info_text): the text is encoded into the file object's buffer
file_write(t) ==
    /\ pc[t] = "write"
    /\ \E o \in {Returned(PyNone)} \cup {Raised(e) : e \in WriteErrors(text[t])} :
          IF o.raised
          THEN Raise(t, "write", o.exc, o.exc) /\ UNCHANGED pending
          ELSE /\ pc' = [pc EXCEPT ![t] = "flush"]
               /\ pending' = [pending EXCEPT ![t] = RawWrites(text[t])]
               /\ UNCHANGED <<resp, failure>>
    /\ UNCHANGED <<req, text, calls, notes, file>>

\* leaving the with block flushes the buffer: one write(2) on the O_APPEND file
file_flush(t) ==
    /\ pc[t] = "flush"
    /\ pending[t] # <<>>
    /\ file' = file \o Head(pending[t])
    /\ pending' = [pending EXCEPT ![t] = Tail(@)]
    /\ UNCHANGED <<pc, req, text, resp, calls, failure, notes>>

\* the file is closed, handle_github_push_event returns, line 166 answers
file_close(t) ==
    /\ pc[t] = "flush"
    /\ pending[t] = <<>>
    /\ pc' = [pc EXCEPT ![t] = "done"]
    /\ resp' = [resp EXCEPT ![t] = success_response]
    /\ UNCHANGED <<req, text, pending, calls, failure, notes, file>>

PushSteps(t) ==
    \/ handle_github_push_event(t)
    \/ push_info_to_misskey(t)
    \/ save_info_to_file(t)
    \/ file_write(t)
    \/ file_flush(t)
    \/ file_close(t)

\* one request, of any shape
Next ==
    \/ \E r \in Requests : github_webhook(1, r)
    \/ PushSteps(1)

Spec == Init /\ [][Next]_vars

\* app.run(threaded=True): a thread per request, any interleaving of their steps
NextThreaded ==
    \E t \in Threads :
        \/ \E r \in ThreadRequests(t) : github_webhook(t, r)
        \/ PushSteps(t)

SpecThreaded == Init /\ [][NextThreaded]_vars

\* the formatter applied to the commits of a push that github_webhook dispatched
InitFmt ==
    /\ \E l \in FmtLists :
          /\ req = [t \in Threads |-> IF t = 1 THEN PushRequest(l) ELSE NoRequest]
          /\ calls = [t \in Threads |->
                        IF t = 1 THEN Entry(PushRequest(l)).calls ELSE <<>>]
    /\ pc = [t \in Threads |-> IF t = 1 THEN "push" ELSE "idle"]
    /\ text = [t \in Threads |-> <<>>]
    /\ pending = [t \in Threads |-> <<>>]
    /\ resp = [t \in Threads |-> NoResponse]
    /\ failure = [t \in Threads |-> NoFailure]
    /\ notes = <<>>
    /\ file = <<>>

NextFmt == handle_github_push_event(1)

SpecFmt == InitFmt /\ [][NextFmt]_vars

(***************************************************************************)
(* Vocabulary of the properties.                                           *)
(***************************************************************************)
Done(t) == pc[t] = "done"

Invoked(t, f) == \E i \in DOMAIN calls[t] : calls[t][i] = f

NoSinkInvoked(t) ==
    ~Invoked(t, "push_info_to_misskey") /\ ~Invoked(t, "save_info_to_file")

IsPush(t) == req[t].event = PyStr("push")

Rejected(t, status_code, error_code) ==
    /\ resp[t].code = status_code
    /\ resp[t].body.status = "error"
    /\ ErrorCode(resp[t]) = error_code

\* a document with repository.name a string, ref a string and commits an array
WellShaped(doc) ==
    /\ doc.ty = "dict"
    /\ {"repository", "ref", "commits"} \subseteq DOMAIN doc.fields
    /\ doc.fields["repository"].ty = "dict"
    /\ "name" \in DOMAIN doc.fields["repository"].fields
    /\ doc.fields["repository"].fields["name"].ty = "str"
    /\ doc.fields["ref"].ty = "str"
    /\ doc.fields["commits"].ty = "list"

\* the request of thread t is a push whose body parses to a well-shaped document
ValidPush(t) ==
    /\ IsPush(t)
    /\ req[t].body.parsable
    /\ WellShaped(req[t].body.json)

\* a commit with a message, an author name and lists for the file keys it holds
WellFormedCommit(c) ==
    /\ c.ty = "dict"
    /\ {"message", "author"} \subseteq DOMAIN c.fields
    /\ c.fields["author"].ty = "dict"
    /\ "name" \in DOMAIN c.fields["author"].fields
    /\ \A k \in {"modified", "added", "removed"} \cap DOMAIN c.fields :
          c.fields[k].ty = "list"

AllWellFormed(commits) == \A i \in DOMAIN commits : WellFormedCommit(commits[i])

\* the body of thread t parses to a JSON value other than null
ParsedBody(t) == req[t].body.parsable /\ req[t].body.json # PyNone

(***************************************************************************)
(* C1.  Every POST whose X-GitHub-Event is "pull_request" is answered 200, *)
(* whatever the shape of its body: no schema is enforced for this event.   *)
(* Stated for the bodies that parse to a JSON value other than null.       *)
(***************************************************************************)
C1_PullRequestAlways200 ==
    \A t \in Threads :
        Done(t) /\ req[t].event = PyStr("pull_request") /\ ParsedBody(t)
            => resp[t].code = 200

(***************************************************************************)
(* C2.  Every POST whose X-GitHub-Event is neither "push" nor              *)
(* "pull_request", or is absent, is answered 200 {"status": "success"},    *)
(* and neither sink is invoked for it.  Stated for the bodies that parse   *)
(* to a JSON value other than null.                                        *)
(***************************************************************************)
C2_UnknownEventAcknowledged ==
    \A t \in Threads :
        Done(t) /\ req[t].event \notin {PyStr("push"), PyStr("pull_request")}
                /\ ParsedBody(t)
            => resp[t] = success_response /\ NoSinkInvoked(t)

(***************************************************************************)
(* C3.  A request whose body does not parse as JSON is answered 400        *)
(* INVALID_JSON, and validate is never called for it.                      *)
(***************************************************************************)
C3_UnparsableIsInvalidJson ==
    \A t \in Threads :
        pc[t] # "idle" /\ ~req[t].body.parsable
            => /\ Done(t)
               /\ Rejected(t, 400, "INVALID_JSON")
               /\ ~Invoked(t, "validate")
               /\ notes = <<>> /\ file = <<>>

C3_Witness ==
    \E t \in Threads :
        /\ Done(t)
        /\ ~req[t].body.parsable
        /\ req[t].event = PyStr("push")
        /\ ErrorCode(resp[t]) = "INVALID_JSON"

(***************************************************************************)
(* C4.  A push whose body parses as JSON but is not a well-shaped document *)
(* (repository.name, ref or commits missing or of the wrong kind) is       *)
(* answered 400 INVALID_SCHEMA before any sink is invoked.                 *)
(***************************************************************************)
C4_MalformedPushIsInvalidSchema ==
    \A t \in Threads :
        Done(t) /\ IsPush(t) /\ req[t].body.parsable
                /\ ~WellShaped(req[t].body.json)
            => Rejected(t, 400, "INVALID_SCHEMA") /\ NoSinkInvoked(t)

(***************************************************************************)
(* C5.  The cap of 100 commits is inclusive.  A valid push of more than    *)
(* 100 commits is answered 400 VALUE_ERROR and no sink is invoked or takes *)
(* effect.  A valid push of exactly 100 well-formed commits is formatted   *)
(* and handed to the Notification Sink, and is answered 200 exactly when   *)
(* both sinks have taken its text.                                         *)
(***************************************************************************)
C5_CommitCapInclusive ==
    \A t \in Threads :
        Done(t) /\ ValidPush(t) =>
            LET commits == CommitsOf(req[t])
            IN /\ Len(commits) > MaxCommits
                    => /\ Rejected(t, 400, "VALUE_ERROR")
                       /\ NoSinkInvoked(t)
                       /\ notes = <<>> /\ file = <<>>
               /\ Len(commits) = MaxCommits /\ AllWellFormed(commits)
                    => /\ Invoked(t, "build_commit_info_text")
                       /\ Invoked(t, "push_info_to_misskey")
                       /\ failure[t].site # "build_commit_info_text"
                       /\ text[t] # <<>>
                       /\ resp[t] = success_response
                            <=> notes = <<text[t]>> /\ file = text[t]

C5_Witness ==
    \E t \in Threads :
        /\ Done(t)
        /\ ValidPush(t)
        /\ Len(CommitsOf(req[t])) = MaxCommits
        /\ resp[t] = success_response
        /\ file = text[t]

\* the calls of a push that succeeds, in their order
PushCalls ==
    <<"validate", "handle_github_push_event", "build_commit_info_text",
      "push_info_to_misskey", "save_info_to_file">>

(***************************************************************************)
(* C6.  As claimed: no push ends with an error response after one of the   *)
(* two sinks has taken effect.                                             *)
(***************************************************************************)
C6_NoErrorAfterSinkEffect ==
    \A t \in Threads :
        Done(t) /\ IsPush(t) /\ resp[t].code # 200 => notes = <<>> /\ file = <<>>

(***************************************************************************)
(* C6, amended.  The steps of a push run in the order Text Formatter,      *)
(* Notification Sink, Persistence Sink; the first step that fails is the   *)
(* last step called, no later sink takes effect, and the failure is        *)
(* reported as an error response; the response is 200 exactly when no step *)
(* failed, and then both sinks hold the text.  A Persistence Sink failure  *)
(* is reported after the Notification Sink has taken effect.               *)
(***************************************************************************)
C6_FirstFailureAborts ==
    \A t \in Threads :
        ValidPush(t) /\ pc[t] # "idle" =>
            /\ calls[t] = SubSeq(PushCalls, 1, Len(calls[t]))
            /\ Len(calls[t]) <= Len(PushCalls)
            /\ Done(t) =>
                /\ resp[t] = success_response <=> failure[t] = NoFailure
                /\ resp[t] = success_response
                     => calls[t] = PushCalls /\ notes = <<text[t]>> /\ file = text[t]
                /\ failure[t].site = "build_commit_info_text"
                     => /\ calls[t] = SubSeq(PushCalls, 1, 3)
                        /\ notes = <<>> /\ file = <<>>
                        /\ resp[t].body.status = "error" /\ resp[t].code >= 400
                /\ failure[t].site = "notes_create"
                     => /\ calls[t] = SubSeq(PushCalls, 1, 4)
                        /\ notes = <<>> /\ file = <<>>
                        /\ resp[t].body.status = "error" /\ resp[t].code >= 400
                /\ failure[t].site \in {"open", "write"}
                     => /\ calls[t] = PushCalls
                        /\ notes = <<text[t]>> /\ file = <<>>
                        /\ resp[t].body.status = "error" /\ resp[t].code >= 400

C6_Witness ==
    \E t \in Threads :
        /\ Done(t)
        /\ ValidPush(t)
        /\ failure[t].site = "open"
        /\ resp[t].code = 500
        /\ notes = <<text[t]>>
        /\ text[t] # <<>>

\* the status and error_code the Error Translator table gives the failure f
TableCode(f, commits) ==
    IF f.site = "build_commit_info_text" /\ Len(commits) > MaxCommits
    THEN <<400, "VALUE_ERROR">>
    ELSE IF f.site = "build_commit_info_text" /\ f.exc.cls = "KeyError"
    THEN <<500, "KEY_MISSING">>
    ELSE IF f.site = "notes_create"
            /\ (InLower("network", f.exc) \/ IsInstance(f.exc, "ConnectionError"))
    THEN <<500, "CONNECTION_ERROR">>
    ELSE IF f.site = "notes_create" /\ InLower("permission", f.exc)
    THEN <<500, "PERMISSION_ERROR">>
    ELSE <<500, "GENERAL_ERROR">>

(***************************************************************************)
(* C9.  Every failure of a push is translated by the Error Translator      *)
(* table: too many commits give 400 VALUE_ERROR, a commit lacking message, *)
(* author or author.name gives 500 KEY_MISSING, a Notification Sink        *)
(* failure whose message contains "network" (or that is a connection       *)
(* error) gives 500 CONNECTION_ERROR, one whose message contains           *)
(* "permission" gives 500 PERMISSION_ERROR, any other failure gives 500    *)
(* GENERAL_ERROR; the body holds status, message, detail and error_code.   *)
(***************************************************************************)
C9_ErrorTable ==
    \A t \in Threads :
        Done(t) /\ ValidPush(t) /\ failure[t] # NoFailure =>
            /\ <<resp[t].code, ErrorCode(resp[t])>>
                  = TableCode(failure[t], CommitsOf(req[t]))
            /\ DOMAIN resp[t].body = {"status", "message", "detail", "error_code"}
            /\ resp[t].body.status = "error"

(***************************************************************************)
(* C10.  The error codes identify their cause: CONNECTION_ERROR and        *)
(* PERMISSION_ERROR are returned only when the Notification Sink call      *)
(* failed, so that the Persistence Sink was not invoked, and VALUE_ERROR   *)
(* only when there were more than 100 commits, so that no sink was invoked.*)
(***************************************************************************)
C10_CodesIdentifyCause ==
    \A t \in Threads :
        Done(t) =>
            /\ ErrorCode(resp[t]) \in {"CONNECTION_ERROR", "PERMISSION_ERROR"}
                  => /\ failure[t].site = "notes_create"
                     /\ ~Invoked(t, "save_info_to_file")
            /\ ErrorCode(resp[t]) = "VALUE_ERROR"
                  => /\ Len(CommitsOf(req[t])) > MaxCommits
                     /\ NoSinkInvoked(t)

AllDone == \A t \in Threads : Done(t)

Saved == {t \in Threads : resp[t] = success_response}

Orders(S) ==
    {o \in [1 .. Cardinality(S) -> S] : \A i, j \in DOMAIN o : o[i] = o[j] => i = j}

RECURSIVE TextsIn(_)
TextsIn(order) ==
    IF order = <<>> THEN <<>> ELSE text[Head(order)] \o TextsIn(Tail(order))

(***************************************************************************)
(* C7.  When the requests of all threads have been answered, the file is   *)
(* the texts of the requests that were saved, each one whole and           *)
(* contiguous, in some order: no interleaving of the threads mixes them.   *)
(***************************************************************************)
C7_AppendsIntact == AllDone => \E o \in Orders(Saved) : file = TextsIn(o)

\* both requests saved, the one that notified first written last
C7_Witness ==
    /\ AllDone
    /\ Saved = Threads
    /\ notes[1] = text[1]
    /\ SubSeq(file, 1, Len(text[2])) = text[2]
    /\ text[1] # text[2]

FilesOf(c, key) == IF HasKey(c, key) THEN c.fields[key].items ELSE <<>>

BlockLen(c) ==
    7 + Len(FilesOf(c, "modified")) + Len(FilesOf(c, "added"))
      + Len(FilesOf(c, "removed"))

RECURSIVE LinesOf(_, _, _)
\* the number of lines of the blocks of commits[lo .. hi]
LinesOf(commits, lo, hi) ==
    IF lo > hi THEN 0
    ELSE IF lo = hi THEN BlockLen(commits[lo])
    ELSE LinesOf(commits, lo, (lo + hi) \div 2)
         + LinesOf(commits, (lo + hi) \div 2 + 1, hi)

\* txt holds the block of commit c after its first off lines
BlockAt(txt, off, c) ==
    LET mo == FilesOf(c, "modified")
        ad == FilesOf(c, "added")
        re == FilesOf(c, "removed")
    IN /\ txt[off + 1] = <<"NOTICE">>
       /\ txt[off + 2] = <<"">>
       /\ txt[off + 3] = <<"MESSAGE", c.fields["message"].str>>
       /\ txt[off + 4] = <<"AUTHOR", c.fields["author"].fields["name"].str>>
       /\ txt[off + 5] = <<"FILES">>
       /\ txt[off + 6] = <<"FENCE">>
       /\ \A k \in DOMAIN mo : txt[off + 6 + k] = <<"[modified]", mo[k].str>>
       /\ \A k \in DOMAIN ad : txt[off + 6 + Len(mo) + k] = <<"[added]", ad[k].str>>
       /\ \A k \in DOMAIN re :
             txt[off + 6 + Len(mo) + Len(ad) + k] = <<"[removed]", re[k].str>>
       /\ txt[off + BlockLen(c)] = <<"FENCE">>

(***************************************************************************)
(* C8.  For at most 100 well-formed commits build_commit_info_text returns *)
(* one block per commit in input order; a block is the notice, a blank     *)
(* line, the message, the author, the heading, a fence, the modified files *)
(* tagged [modified], then the added files tagged [added], then the        *)
(* removed files tagged [removed], each group in input order with its      *)
(* duplicates, and a fence; a commit with none of the three keys gives a   *)
(* block whose fences are adjacent.                                        *)
(***************************************************************************)
C8_FormatterOrderPreserving ==
    pc[1] # "push" =>
        LET commits == CommitsOf(req[1])
        IN /\ pc[1] = "notify"
           /\ failure[1] = NoFailure
           /\ Len(text[1]) = LinesOf(commits, 1, Len(commits))
           /\ \A i \in DOMAIN commits :
                 BlockAt(text[1], LinesOf(commits, 1, i - 1), commits[i])

C8_Witness ==
    /\ pc[1] = "notify"
    /\ Len(CommitsOf(req[1])) = 2
    /\ Len(FilesOf(CommitsOf(req[1])[1], "modified")) = 3
    /\ Len(FilesOf(CommitsOf(req[1])[1], "added")) = 1
    /\ Len(FilesOf(CommitsOf(req[1])[1], "removed")) = 2
    /\ DOMAIN CommitsOf(req[1])[2].fields = {"message", "author"}
    /\ Len(text[1]) = 20

====
